---- MODULE Spec2Model ----
(***************************************************************************)
(* Aqua-Lert leak-inference engine: the ingestion pass                     *)
(* (process_sensor_data_topology), its two HTTP entry points, the topology *)
(* and sensor stores, and the alert lifecycle routes.                      *)
(*                                                                         *)
(* Numbers.  Flows and battery levels are integers.  A sigmoid value in    *)
(* (0,1) is an integer in 0..Scale; a probability computed by the engine   *)
(* is an integer number of thousandths of a percent (50% is 50 * Percent); *)
(* the DECIMAL(5,2) column it is stored in keeps hundredths, rounded.  A   *)
(* reading carries the Python type of its flow_rate: "float" as parsed     *)
(* from a request body, "decimal" as loaded from a DECIMAL column.         *)
(***************************************************************************)
EXTENDS Integers, Sequences, FiniteSets, TLC

\* ------------------------------------------------------------------ bounds

NumSensors == 3
MaxEdges == 2
MaxReadings == 1
RecursionLimit == 5
MaxAlertId == 2

SensorIds == 1..NumSensors
\* the readings sent to POST /sensors/{sensor_id}/data
StoredFlows == {80}
StoredBatteries == {10}

\* ------------------------------------------------------- program constants

LOW_BATTERY_THRESHOLD == 20
\* ANOMALY_FLOW_DROP = 0.5, kept as its double
ANOMALY_FLOW_DROP_x2 == 1
\* leak_prob thresholds of the severity bands, in percent
LEAK_EMIT_THRESHOLD == 50
LEAK_HIGH_THRESHOLD == 70
\* the fixed probabilities of low_battery and anomaly alerts, in percent
LOW_BATTERY_PROBABILITY == 90
ANOMALY_PROBABILITY == 85

\* ------------------------------------------------------------ leak scoring

\* the unit of a sigmoid value: 1.0
Scale == 10000
\* exp(-1/20) in units of 1/Scale
ExpNegTwentieth == 9512
\* one percent, in the unit of a computed probability
Percent == Scale \div 10

Abs(x) == IF x < 0 THEN -x ELSE x

\* exp(-n/20) in units of 1/Scale, n >= 0
RECURSIVE ExpNeg(_)
ExpNeg(n) ==
    IF n = 0 THEN Scale
    ELSE IF n % 2 = 0
         THEN LET h == ExpNeg(n \div 2) IN (h * h + Scale \div 2) \div Scale
         ELSE (ExpNeg(n - 1) * ExpNegTwentieth + Scale \div 2) \div Scale

\* sigmoid(x, x0, k) = 1 / (1 + exp(-k * (x - x0))) with x = x2 / 2 and
\* k = k10 / 10, so that k * (x - x0) = k10 * (x2 - 2 * x0) / 20
sigmoid(x2, x0, k10) ==
    LET z == k10 * (x2 - 2 * x0)
    IN  IF z >= 0
        THEN (Scale * Scale) \div (Scale + ExpNeg(z))
        ELSE (Scale * ExpNeg(-z)) \div (Scale + ExpNeg(-z))

\* math.exp raises OverflowError ("math range error") once its argument
\* exceeds 709.78: 20 times that bound, rounded up to the next integer
MATH_RANGE_x20 == 14196

\* exp(-k * (x - x0)) of sigmoid(x, x0, k) is out of the range of a double
ExpRaises(x2, x0, k10) == -(k10 * (x2 - 2 * x0)) >= MATH_RANGE_x20

\* compute_leak_probability_sigmoid with the battery term not inverted
compute_leak_probability_battery_not_inverted(flow1, flow2, battery1, battery2) ==
    LET flow_avg2     == flow1 + flow2
        flow_diff     == Abs(flow1 - flow2)
        battery_avg2  == battery1 + battery2
        flow_score    == sigmoid(flow_avg2, 50, 1)
        diff_score    == sigmoid(2 * flow_diff, 5, 5)
        battery_score == sigmoid(battery_avg2, 30, 2)
    IN  5 * flow_score + 4 * diff_score + 1 * battery_score

\* leak probability of a parent/child pair, in units of 1/Percent:
\* (0.5 * f + 0.4 * d + 0.1 * b) * 100 with each score in units of 1/Scale
compute_leak_probability_sigmoid(flow1, flow2, battery1, battery2) ==
    LET flow_avg2     == flow1 + flow2
        flow_diff     == Abs(flow1 - flow2)
        battery_avg2  == battery1 + battery2
        flow_score    == sigmoid(flow_avg2, 50, 1)
        diff_score    == sigmoid(2 * flow_diff, 5, 5)
        battery_score == Scale - sigmoid(battery_avg2, 30, 2)
    IN  5 * flow_score + 4 * diff_score + 1 * battery_score

\* the value a DECIMAL(5,2) column keeps of a probability: hundredths of a
\* percent, rounded half up
ProbabilityColumn(probability) == (probability * 100 + Percent \div 2) \div Percent

\* --------------------------------------------------------------- the store

VARIABLES
    sensors,            \* sensors table: the registered sensor_id values
    pipeline_topology,  \* pipeline_topology rows, in id order
    sensor_data,        \* sensor_data rows of each sensor_id, oldest first
    processed_data,     \* processed_data rows of each sensor_id, oldest first
    alerts,             \* alerts rows, in alert_id order
    next_alert_id,      \* the AUTO_INCREMENT counter of alerts
    pass,               \* the ingestion request each worker is serving
    response            \* the response to the last sensor, topology or alert
                        \* request; NoResponse once an ingestion request starts

vars == <<sensors, pipeline_topology, sensor_data, processed_data, alerts,
          next_alert_id, pass, response>>

\* an HTTP response: status code, its message or error detail, and the
\* number the body carries (the alert_id of a resolve or update, the count
\* of a bulk resolve; 0 when it carries none)
Response(status_code, detail, number) ==
    [status_code |-> status_code, detail |-> detail, number |-> number]

NoResponse == Response(0, "", 0)

Passes == 1..2

\* what get_latest_data returns for a sensor without any reading
None == [flow_rate |-> 0, battery_level |-> 0, kind |-> "none"]

\* a SensorData object built from a request body: flow_rate is a float
FloatReading(flow_rate, battery_level) ==
    [flow_rate |-> flow_rate, battery_level |-> battery_level, kind |-> "float"]

\* a SensorData object loaded from its row: flow_rate is a Decimal
LoadedReading(row) ==
    [flow_rate |-> row.flow_rate, battery_level |-> row.battery_level,
     kind |-> "decimal"]

Last(s) == s[Len(s)]

RECURSIVE SeqSum(_)
SeqSum(s) == IF s = <<>> THEN 0 ELSE Head(s) + SeqSum(Tail(s))

\* the ids of a set, ascending (the order of a primary-key scan)
RECURSIVE SortedSeq(_)
SortedSeq(S) ==
    IF S = {} THEN <<>>
    ELSE LET m == CHOOSE a \in S : \A b \in S : a <= b
         IN  <<m>> \o SortedSeq(S \ {m})

get_latest_data(sensor_id, new_readings, data) ==
    IF sensor_id \in DOMAIN new_readings
    THEN new_readings[sensor_id]
    ELSE LET rows == data[sensor_id]
         IN  IF rows = <<>> THEN None ELSE LoadedReading(Last(rows))

build_topology(mappings) ==
    [p \in SensorIds |->
        LET rows == SelectSeq(mappings, LAMBDA m : m.parent_sensor_id = p)
        IN  [i \in 1..Len(rows) |-> rows[i].child_sensor_id]]

\* ------------------------------------------------------------- smoothing

WINDOW == 5

\* the WINDOW most recent processed rows of a sensor, newest first
last_proc_of(sensor_id, processed) ==
    LET rows == processed[sensor_id]
        n    == IF Len(rows) < WINDOW THEN Len(rows) ELSE WINDOW
    IN  [i \in 1..n |-> rows[Len(rows) + 1 - i]]

\* SmoothOne that, with a history, writes the mean of the window and the new
\* reading's flow_rate, and its difference to the newest row
SmoothOneAveragingNewReading(sensor_id, sensor_data_row, processed) ==
    LET last_proc == last_proc_of(sensor_id, processed)
        smoothed_flow ==
            IF last_proc # <<>>
            THEN (SeqSum([i \in 1..Len(last_proc) |-> last_proc[i].smoothed_flow])
                      + sensor_data_row.flow_rate) \div (Len(last_proc) + 1)
            ELSE sensor_data_row.flow_rate
    IN  [error |-> "",
         row |-> <<[sensor_id |-> sensor_id, smoothed_flow |-> smoothed_flow,
                    flow_diff |-> IF last_proc # <<>>
                                  THEN smoothed_flow - last_proc[1].smoothed_flow
                                  ELSE 0]>>]

\* One iteration of the smoothing loop for a sensor that has a reading.
\* smoothed_flow is a float in both branches; with a history, flow_diff is
\* float - Decimal, which Python refuses with a TypeError.
SmoothOne(sensor_id, sensor_data_row, processed) ==
    LET last_proc == last_proc_of(sensor_id, processed)
        smoothed_flow ==
            IF last_proc # <<>>
            THEN SeqSum([i \in 1..Len(last_proc) |-> last_proc[i].smoothed_flow])
                     \div Len(last_proc)
            ELSE sensor_data_row.flow_rate
    IN  IF last_proc # <<>>
        THEN [error |-> "TypeError", row |-> <<>>]
        ELSE [error |-> "",
              row |-> <<[sensor_id |-> sensor_id, smoothed_flow |-> smoothed_flow,
                         flow_diff |-> 0]>>]

\* the smoothing loop over the sensor list: the rows added to the session,
\* or the error that ends the request
RECURSIVE SmoothAll(_, _, _, _)
SmoothAll(sensor_list, new_readings, data, processed) ==
    IF sensor_list = <<>> THEN [error |-> "", rows |-> <<>>]
    ELSE LET sid  == Head(sensor_list)
             d    == get_latest_data(sid, new_readings, data)
             rest == SmoothAll(Tail(sensor_list), new_readings, data, processed)
         IN  IF d = None THEN rest
             ELSE LET one == SmoothOne(sid, d, processed)
                  IN  IF one.error # "" THEN [error |-> one.error, rows |-> <<>>]
                      ELSE IF rest.error # "" THEN rest
                      ELSE [error |-> "", rows |-> one.row \o rest.rows]

\* ----------------------------------------------------------- edge scoring

NewAlert(from, to, type, severity, probability) ==
    [sensor_from |-> from, sensor_to |-> to, alert_type |-> type,
     severity |-> severity, probability |-> probability, status |-> "active"]

\* SeverityOf with the upper band starting at 75 instead of 70
SeverityOfHighFrom75(leak_prob) ==
    IF leak_prob < LEAK_EMIT_THRESHOLD * Percent THEN "low"
    ELSE IF leak_prob < (LEAK_HIGH_THRESHOLD + 5) * Percent THEN "medium"
    ELSE "high"

SeverityOf(leak_prob) ==
    IF leak_prob < LEAK_EMIT_THRESHOLD * Percent THEN "low"
    ELSE IF leak_prob < LEAK_HIGH_THRESHOLD * Percent THEN "medium"
    ELSE "high"

EmitsLeak(leak_prob) == leak_prob >= LEAK_EMIT_THRESHOLD * Percent

LeakAlerts(parent_id, child_id, leak_prob) ==
    IF EmitsLeak(leak_prob)
    THEN <<NewAlert(parent_id, child_id, "leak", SeverityOf(leak_prob), leak_prob)>>
    ELSE <<>>

AnomalyAlerts(parent_id, child_id, parent_data, child_data) ==
    IF 2 * (parent_data.flow_rate - child_data.flow_rate) < -ANOMALY_FLOW_DROP_x2
    THEN <<NewAlert(parent_id, child_id, "anomaly", "medium",
                   ANOMALY_PROBABILITY * Percent)>>
    ELSE <<>>

LowBatteryAlerts(sid, d) ==
    IF d.battery_level < LOW_BATTERY_THRESHOLD
    THEN <<NewAlert(sid, sid, "low_battery", "low", LOW_BATTERY_PROBABILITY * Percent)>>
    ELSE <<>>

\* compute_leak_probability_sigmoid mixes its flow arguments with float
\* literals: a Decimal flow_rate raises TypeError (Decimal + float, or
\* float * Decimal inside sigmoid)
ScoringRaises(parent_data, child_data) ==
    parent_data.kind = "decimal" \/ child_data.kind = "decimal"

\* one of the three sigmoid calls of compute_leak_probability_sigmoid raises
\* OverflowError
ScoringOverflows(flow1, flow2, battery1, battery2) ==
    \/ ExpRaises(flow1 + flow2, 50, 1)
    \/ ExpRaises(2 * Abs(flow1 - flow2), 5, 5)
    \/ ExpRaises(battery1 + battery2, 30, 2)

\* the exception compute_leak_probability_sigmoid ends with, "" when it
\* returns
ScoringError(parent_data, child_data) ==
    IF ScoringRaises(parent_data, child_data) THEN "TypeError"
    ELSE IF ScoringOverflows(parent_data.flow_rate, child_data.flow_rate,
                             parent_data.battery_level, child_data.battery_level)
    THEN "OverflowError"
    ELSE ""

\* EvaluateEdge with the battery check made for the parent only
EvaluateEdgeParentBatteryOnly(parent_id, child_id, parent_data, child_data) ==
    LET leak_prob == compute_leak_probability_sigmoid(
                         parent_data.flow_rate, child_data.flow_rate,
                         parent_data.battery_level, child_data.battery_level)
    IN  [leak_prob |-> leak_prob,
         alerts |-> LeakAlerts(parent_id, child_id, leak_prob)
                    \o AnomalyAlerts(parent_id, child_id, parent_data, child_data)
                    \o LowBatteryAlerts(parent_id, parent_data)]

\* the body of the child loop for one child that has a reading
EvaluateEdge(parent_id, child_id, parent_data, child_data) ==
    LET leak_prob == compute_leak_probability_sigmoid(
                         parent_data.flow_rate, child_data.flow_rate,
                         parent_data.battery_level, child_data.battery_level)
    IN  [leak_prob |-> leak_prob,
         alerts |-> LeakAlerts(parent_id, child_id, leak_prob)
                    \o AnomalyAlerts(parent_id, child_id, parent_data, child_data)
                    \o LowBatteryAlerts(parent_id, parent_data)
                    \o LowBatteryAlerts(child_id, child_data)]

\* ------------------------------------------------------ the ingestion pass

\* A request slot.  pc: "idle", "smoothed" (the smoothing loop has run, the
\* commit of line 99 is next), "traverse", "done", "failed".  processed and
\* alerts are the objects added to the session and not yet committed;
\* evaluated and visited record the edges scored and the calls of
\* traverse_and_check that got past the parent check; before records the
\* processed_data and alerts tables as the request found them, and
\* raised_in the part of process_sensor_data_topology an error came from.
NoTables == [processed_data |-> <<>>, alerts |-> <<>>]

IdlePass ==
    [pc |-> "idle", sensors |-> <<>>, new_readings |-> <<>>,
     topology |-> build_topology(<<>>), processed |-> <<>>, alerts |-> <<>>,
     roots |-> <<>>, stack |-> <<>>, evaluated |-> <<>>, visited |-> <<>>,
     error |-> "", raised_in |-> "", before |-> NoTables]

AllIdle == \A p \in Passes : pass[p].pc = "idle"

\* RootsOf without the filter: the traversal is started at every sensor
RootsOfEverySensor(sensor_list, topology) == sensor_list

\* roots = [s.sensor_id for s in sensors if s.sensor_id not in all_children]
RootsOf(sensor_list, topology) ==
    LET all_children == UNION {{topology[q][i] : i \in 1..Len(topology[q])} :
                                  q \in SensorIds}
    IN  SelectSeq(sensor_list, LAMBDA sid : sid \notin all_children)

\* process_sensor_data_topology up to the commit of line 99
BeginPass(p, sensor_list, new_readings, data) ==
    LET topology == build_topology(pipeline_topology)
        sm == SmoothAll(sensor_list, new_readings, data, processed_data)
        before == [processed_data |-> processed_data, alerts |-> alerts]
    IN  pass' = [pass EXCEPT ![p] =
            IF sm.error # ""
            THEN [IdlePass EXCEPT !.pc = "failed", !.error = sm.error,
                                  !.raised_in = "smoothing", !.before = before,
                                  !.sensors = sensor_list,
                                  !.new_readings = new_readings]
            ELSE [IdlePass EXCEPT
                    !.pc = "smoothed",
                    !.before = before,
                    !.sensors = sensor_list,
                    !.new_readings = new_readings,
                    !.topology = topology,
                    !.processed = sm.rows]]

\* receive_sensor_data that adds the readings of its batch to sensor_data
\* before the pass
receive_sensor_data_storing_batch(p, readings) ==
    /\ pass[p].pc = "idle"
    /\ sensors # {}
    /\ sensor_data' =
           [sid \in SensorIds |->
               IF sid \in DOMAIN readings
               THEN Append(sensor_data[sid],
                           [sensor_id |-> sid, flow_rate |-> readings[sid].flow_rate,
                            battery_level |-> readings[sid].battery_level])
               ELSE sensor_data[sid]]
    /\ BeginPass(p, SortedSeq(sensors), readings, sensor_data')
    /\ response' = NoResponse
    /\ UNCHANGED <<sensors, pipeline_topology, processed_data, alerts,
                   next_alert_id>>

\* POST /sensors/data
receive_sensor_data(p, readings) ==
    /\ pass[p].pc = "idle"
    /\ sensors # {}
    /\ BeginPass(p, SortedSeq(sensors), readings, sensor_data)
    /\ response' = NoResponse
    /\ UNCHANGED <<sensors, pipeline_topology, sensor_data, processed_data,
                   alerts, next_alert_id>>

\* POST /sensors/{sensor_id}/data: the reading is committed and refreshed
\* (its flow_rate comes back as a Decimal) before the pass starts
add_sensor_data(p, sensor_id, flow_rate, battery_level) ==
    /\ pass[p].pc = "idle"
    /\ sensor_id \in sensors
    /\ Len(sensor_data[sensor_id]) < MaxReadings
    /\ LET row == [sensor_id |-> sensor_id, flow_rate |-> flow_rate,
                   battery_level |-> battery_level]
           new_data == LoadedReading(row)
       IN  /\ sensor_data' = [sensor_data EXCEPT ![sensor_id] = Append(@, row)]
           /\ BeginPass(p, <<sensor_id>>, [s \in {sensor_id} |-> new_data],
                        sensor_data')
    /\ response' = NoResponse
    /\ UNCHANGED <<sensors, pipeline_topology, processed_data, alerts,
                   next_alert_id>>

\* the processed_data table after the INSERT of the rows added to a session
RECURSIVE InsertedProcessed(_, _)
InsertedProcessed(processed, rows) ==
    IF rows = <<>> THEN processed
    ELSE InsertedProcessed(
             [processed EXCEPT ![Head(rows).sensor_id] = Append(@, Head(rows))],
             Tail(rows))

\* db.commit() of line 99, then the roots of lines 176-177
CommitProcessed(p) ==
    /\ pass[p].pc = "smoothed"
    /\ processed_data' = InsertedProcessed(processed_data, pass[p].processed)
    /\ pass' = [pass EXCEPT ![p].pc = "traverse",
                            ![p].processed = <<>>,
                            ![p].roots = RootsOf(pass[p].sensors, pass[p].topology)]
    /\ UNCHANGED <<sensors, pipeline_topology, sensor_data, alerts, next_alert_id,
                   response>>

\* Return from every call whose child loop is over, and move the caller's
\* loop on to its next child.
RECURSIVE Unwind(_, _)
Unwind(stack, topology) ==
    IF stack = <<>> THEN stack
    ELSE LET top == Last(stack)
         IN  IF top.i <= Len(topology[top.parent_id]) THEN stack
             ELSE LET rest == SubSeq(stack, 1, Len(stack) - 1)
                  IN  IF rest = <<>> THEN rest
                      ELSE Unwind([rest EXCEPT ![Len(rest)].i = @ + 1], topology)

\* the call traverse_and_check(parent_id) made with `stack` as the callers
\* and parent_data found: a frame deeper than the interpreter allows raises
EnterCall(ps, stack, parent_id, parent_data) ==
    IF Len(stack) >= RecursionLimit
    THEN [ps EXCEPT !.pc = "failed", !.error = "RecursionError",
                    !.raised_in = "traversal", !.stack = stack]
    ELSE [ps EXCEPT
            !.visited = Append(@, parent_id),
            !.stack = Unwind(Append(stack, [parent_id |-> parent_id,
                                            parent_data |-> parent_data, i |-> 1]),
                             ps.topology)]

\* NextRoot that does not give up at a root without a reading: the traversal
\* goes on from the children of that root
NextRootDescendingPastMissing(ps, data) ==
    LET root == Head(ps.roots)
        parent_data == get_latest_data(root, ps.new_readings, data)
        ps1 == [ps EXCEPT !.roots = Tail(@)]
    IN  IF parent_data = None
        THEN [ps EXCEPT !.roots = ps.topology[root] \o Tail(@)]
        ELSE EnterCall(ps1, <<>>, root, parent_data)

\* for root in roots: traverse_and_check(root)
NextRoot(ps, data) ==
    LET root == Head(ps.roots)
        parent_data == get_latest_data(root, ps.new_readings, data)
        ps1 == [ps EXCEPT !.roots = Tail(@)]
    IN  IF parent_data = None THEN ps1
        ELSE EnterCall(ps1, <<>>, root, parent_data)

\* NextChild without the check of child_data: the attributes of a missing
\* reading are read
NextChildWithoutMissingCheck(ps, data) ==
    LET top == Last(ps.stack)
        child_id == ps.topology[top.parent_id][top.i]
        child_data == get_latest_data(child_id, ps.new_readings, data)
    IN  IF child_data = None
        THEN [ps EXCEPT !.pc = "failed", !.error = "AttributeError",
                        !.raised_in = "traversal"]
        ELSE IF ScoringError(top.parent_data, child_data) # ""
        THEN [ps EXCEPT !.pc = "failed",
                        !.error = ScoringError(top.parent_data, child_data),
                        !.raised_in = "traversal"]
        ELSE LET ev == EvaluateEdge(top.parent_id, child_id, top.parent_data,
                                    child_data)
                 ps1 == [ps EXCEPT
                            !.alerts = @ \o ev.alerts,
                            !.evaluated = Append(@, [parent_id |-> top.parent_id,
                                                     child_id |-> child_id,
                                                     leak_prob |-> ev.leak_prob])]
             IN  EnterCall(ps1, ps.stack, child_id, child_data)

\* one iteration of the child loop of the innermost call
NextChild(ps, data) ==
    LET top == Last(ps.stack)
        child_id == ps.topology[top.parent_id][top.i]
        child_data == get_latest_data(child_id, ps.new_readings, data)
    IN  IF child_data = None
        THEN [ps EXCEPT !.stack =
                Unwind([ps.stack EXCEPT ![Len(ps.stack)].i = @ + 1], ps.topology)]
        ELSE IF ScoringError(top.parent_data, child_data) # ""
        THEN [ps EXCEPT !.pc = "failed",
                        !.error = ScoringError(top.parent_data, child_data),
                        !.raised_in = "traversal"]
        ELSE LET ev == EvaluateEdge(top.parent_id, child_id, top.parent_data,
                                    child_data)
                 ps1 == [ps EXCEPT
                            !.alerts = @ \o ev.alerts,
                            !.evaluated = Append(@, [parent_id |-> top.parent_id,
                                                     child_id |-> child_id,
                                                     leak_prob |-> ev.leak_prob])]
             IN  EnterCall(ps1, ps.stack, child_id, child_data)

\* the rows INSERTed by a commit: alert_id from the counter, probability as
\* its column keeps it
InsertedAlerts(buffer, first_id) ==
    [i \in 1..Len(buffer) |->
        [alert_id |-> first_id + i - 1,
         sensor_from |-> buffer[i].sensor_from, sensor_to |-> buffer[i].sensor_to,
         alert_type |-> buffer[i].alert_type, severity |-> buffer[i].severity,
         probability |-> ProbabilityColumn(buffer[i].probability),
         status |-> buffer[i].status]]

\* TraverseStep with a commit after each edge: the alerts of the edge are
\* stored as soon as they are generated
TraverseStepCommittingEachEdge(p) ==
    /\ pass[p].pc = "traverse"
    /\ pass[p].roots # <<>> \/ pass[p].stack # <<>>
    /\ LET ps == IF pass[p].stack = <<>>
                 THEN NextRoot(pass[p], sensor_data)
                 ELSE NextChild(pass[p], sensor_data)
           new == SubSeq(ps.alerts, Len(pass[p].alerts) + 1, Len(ps.alerts))
       IN  /\ pass' = [pass EXCEPT ![p] = ps]
           /\ alerts' = alerts \o InsertedAlerts(new, next_alert_id)
           /\ next_alert_id' = next_alert_id + Len(new)
    /\ UNCHANGED <<sensors, pipeline_topology, sensor_data, processed_data,
                   response>>

TraverseStep(p) ==
    /\ pass[p].pc = "traverse"
    /\ pass[p].roots # <<>> \/ pass[p].stack # <<>>
    /\ pass' = [pass EXCEPT ![p] =
                    IF pass[p].stack = <<>>
                    THEN NextRoot(pass[p], sensor_data)
                    ELSE NextChild(pass[p], sensor_data)]
    /\ UNCHANGED <<sensors, pipeline_topology, sensor_data, processed_data,
                   alerts, next_alert_id, response>>

\* if alerts: db.commit()
FinalCommit(p) ==
    /\ pass[p].pc = "traverse"
    /\ pass[p].roots = <<>> /\ pass[p].stack = <<>>
    /\ alerts' = alerts \o InsertedAlerts(pass[p].alerts, next_alert_id)
    /\ next_alert_id' = next_alert_id + Len(pass[p].alerts)
    /\ pass' = [pass EXCEPT ![p].pc = "done"]
    /\ UNCHANGED <<sensors, pipeline_topology, sensor_data, processed_data,
                   response>>

\* the response is sent (or the exception becomes a 500) and get_db closes
\* the session: whatever was added and not committed is gone
EndRequest(p) ==
    /\ pass[p].pc \in {"done", "failed"}
    /\ pass' = [pass EXCEPT ![p] = IdlePass]
    /\ UNCHANGED <<sensors, pipeline_topology, sensor_data, processed_data,
                   alerts, next_alert_id, response>>

\* ------------------------------------------------------ sensors, topology

\* the request changes nothing in the store
StoreUnchanged ==
    UNCHANGED <<sensors, pipeline_topology, sensor_data, processed_data, alerts,
                next_alert_id, pass>>

\* POST /sensors
create_sensor(sensor_id) ==
    IF sensor_id \in sensors
    THEN /\ response' = Response(400, "Sensor already exists", 0)
         /\ StoreUnchanged
    ELSE /\ sensors' = sensors \cup {sensor_id}
         /\ response' = Response(200, "Sensor registered successfully", 0)
         /\ UNCHANGED <<pipeline_topology, sensor_data, processed_data, alerts,
                        next_alert_id, pass>>

\* DELETE /sensors/{sensor_id}
delete_sensor(sensor_id) ==
    IF sensor_id \notin sensors
    THEN /\ response' = Response(404, "Sensor not found", 0)
         /\ StoreUnchanged
    ELSE /\ sensor_data' = [sensor_data EXCEPT ![sensor_id] = <<>>]
         /\ alerts' = SelectSeq(alerts, LAMBDA a : a.sensor_from # sensor_id
                                                   /\ a.sensor_to # sensor_id)
         /\ pipeline_topology' =
                SelectSeq(pipeline_topology,
                          LAMBDA m : m.parent_sensor_id # sensor_id
                                     /\ m.child_sensor_id # sensor_id)
         /\ sensors' = sensors \ {sensor_id}
         /\ response' = Response(200, "Sensor and its data/alerts deleted successfully", 0)
         /\ UNCHANGED <<processed_data, next_alert_id, pass>>

\* add_topology looking up the parent only
add_topology_checking_parent_only(parent_sensor_id, child_sensor_id) ==
    IF parent_sensor_id \notin sensors
    THEN /\ response' = Response(404, "Parent or child sensor not found", 0)
         /\ StoreUnchanged
    ELSE /\ Len(pipeline_topology) < MaxEdges
         /\ pipeline_topology' = Append(pipeline_topology,
                [parent_sensor_id |-> parent_sensor_id,
                 child_sensor_id |-> child_sensor_id])
         /\ response' = Response(200, "Topology mapping added successfully", 0)
         /\ UNCHANGED <<sensors, sensor_data, processed_data, alerts,
                        next_alert_id, pass>>

\* POST /topology/add
add_topology(parent_sensor_id, child_sensor_id) ==
    IF parent_sensor_id \notin sensors \/ child_sensor_id \notin sensors
    THEN /\ response' = Response(404, "Parent or child sensor not found", 0)
         /\ StoreUnchanged
    ELSE /\ Len(pipeline_topology) < MaxEdges
         /\ pipeline_topology' = Append(pipeline_topology,
                [parent_sensor_id |-> parent_sensor_id,
                 child_sensor_id |-> child_sensor_id])
         /\ response' = Response(200, "Topology mapping added successfully", 0)
         /\ UNCHANGED <<sensors, sensor_data, processed_data, alerts,
                        next_alert_id, pass>>

\* --------------------------------------------------------- alert lifecycle

AlertIds == {alerts[i].alert_id : i \in 1..Len(alerts)}

AlertById(alert_id) ==
    alerts[CHOOSE i \in 1..Len(alerts) : alerts[i].alert_id = alert_id]

\* the status resolve_alert leaves a found alert with
ResolvedStatus(alert) == "resolved"

\* resolve_alert refusing an alert that is already resolved
resolve_alert_rejecting_resolved(alert_id) ==
    IF alert_id \notin AlertIds
    THEN /\ response' = Response(404, "Alert not found", 0)
         /\ StoreUnchanged
    ELSE IF AlertById(alert_id).status = "resolved"
    THEN /\ response' = Response(400, "Alert already resolved", alert_id)
         /\ StoreUnchanged
    ELSE /\ alerts' = [i \in 1..Len(alerts) |->
                         IF alerts[i].alert_id = alert_id
                         THEN [alerts[i] EXCEPT !.status = ResolvedStatus(alerts[i])]
                         ELSE alerts[i]]
         /\ response' = Response(200, "Alert resolved successfully", alert_id)
         /\ UNCHANGED <<sensors, pipeline_topology, sensor_data, processed_data,
                        next_alert_id, pass>>

\* POST /alerts/resolve/{alert_id}
resolve_alert(alert_id) ==
    IF alert_id \notin AlertIds
    THEN /\ response' = Response(404, "Alert not found", 0)
         /\ StoreUnchanged
    ELSE IF AlertById(alert_id).status = "resolved"
    THEN /\ response' = Response(200, "Alert already resolved", alert_id)
         /\ StoreUnchanged
    ELSE /\ alerts' = [i \in 1..Len(alerts) |->
                         IF alerts[i].alert_id = alert_id
                         THEN [alerts[i] EXCEPT !.status = ResolvedStatus(alerts[i])]
                         ELSE alerts[i]]
         /\ response' = Response(200, "Alert resolved successfully", alert_id)
         /\ UNCHANGED <<sensors, pipeline_topology, sensor_data, processed_data,
                        next_alert_id, pass>>

\* the number in the message of bulk_resolve_alerts: len(alerts), the rows
\* whose alert_id is in alert_ids
ReportedCount(alert_ids) == Cardinality(alert_ids \cap AlertIds)

\* bulk_resolve_alerts without the filter on alert_id: every row is resolved
bulk_resolve_alerts_unfiltered(alert_ids) ==
    IF alert_ids \cap AlertIds = {}
    THEN /\ response' = Response(404, "No alerts found", 0)
         /\ StoreUnchanged
    ELSE /\ alerts' = [i \in 1..Len(alerts) |->
                         [alerts[i] EXCEPT !.status = "resolved"]]
         /\ response' = Response(200, "alerts resolved successfully",
                                 ReportedCount(alert_ids))
         /\ UNCHANGED <<sensors, pipeline_topology, sensor_data, processed_data,
                        next_alert_id, pass>>

\* POST /alerts/resolve/bulk
bulk_resolve_alerts(alert_ids) ==
    IF alert_ids \cap AlertIds = {}
    THEN /\ response' = Response(404, "No alerts found", 0)
         /\ StoreUnchanged
    ELSE /\ alerts' = [i \in 1..Len(alerts) |->
                         IF alerts[i].alert_id \in alert_ids
                         THEN [alerts[i] EXCEPT !.status = "resolved"]
                         ELSE alerts[i]]
         /\ response' = Response(200, "alerts resolved successfully",
                                 ReportedCount(alert_ids))
         /\ UNCHANGED <<sensors, pipeline_topology, sensor_data, processed_data,
                        next_alert_id, pass>>

\* a query parameter that was not given
Omitted == "omitted"

\* the row update_alert writes: each given field replaces the stored one
UpdatedAlert(alert, severity, status) ==
    [alert EXCEPT
        !.severity = IF severity # Omitted THEN severity ELSE @,
        !.status = IF status # Omitted THEN status ELSE @]

\* PUT /alerts/{alert_id}
update_alert(alert_id, severity, status) ==
    IF alert_id \notin AlertIds
    THEN /\ response' = Response(404, "Alert not found", 0)
         /\ StoreUnchanged
    ELSE /\ alerts' = [i \in 1..Len(alerts) |->
                         IF alerts[i].alert_id = alert_id
                         THEN UpdatedAlert(alerts[i], severity, status)
                         ELSE alerts[i]]
         /\ response' = Response(200, "Alert updated successfully", alert_id)
         /\ UNCHANGED <<sensors, pipeline_topology, sensor_data, processed_data,
                        next_alert_id, pass>>

\* ----------------------------------------------------------- specification

\* the (flow_rate, battery_level) pairs a request body may carry
ReadingValues == {<<20, 10>>, <<80, 10>>, <<80, 100>>}
Readings == {FloatReading(v[1], v[2]) : v \in ReadingValues}

\* the request bodies of POST /sensors/data: at most one reading per
\* registered sensor (the dict keeps the last reading of a sensor_id)
Batches == UNION {[D -> Readings] : D \in SUBSET sensors}

Statuses == {"active", "resolved"}

\* the alert ids the operator's requests name
RequestedAlertIds == 1..MaxAlertId

\* Two sensors are registered and nothing else is stored.
Init ==
    /\ sensors = {1, 2}
    /\ pipeline_topology = <<>>
    /\ sensor_data = [sid \in SensorIds |-> <<>>]
    /\ processed_data = [sid \in SensorIds |-> <<>>]
    /\ alerts = <<>>
    /\ next_alert_id = 1
    /\ pass = [p \in Passes |-> IdlePass]
    /\ response = NoResponse

\* Requests served one at a time: worker 1 serves every ingestion request,
\* and no other request arrives while a pass is in progress.
CreateSensor == AllIdle /\ \E sid \in SensorIds : create_sensor(sid)
DeleteSensor == AllIdle /\ \E sid \in SensorIds : delete_sensor(sid)
AddTopology == AllIdle /\ \E q, c \in SensorIds : add_topology(q, c)
AddSensorData ==
    AllIdle /\ \E sid \in SensorIds, f \in StoredFlows, b \in StoredBatteries :
                    add_sensor_data(1, sid, f, b)
ReceiveSensorData == AllIdle /\ \E readings \in Batches : receive_sensor_data(1, readings)
PassStep == \E p \in Passes : CommitProcessed(p) \/ TraverseStep(p) \/ FinalCommit(p)
PassEnd == \E p \in Passes : EndRequest(p)
ResolveAlert == AllIdle /\ \E id \in RequestedAlertIds : resolve_alert(id)
BulkResolveAlerts ==
    AllIdle /\ \E ids \in SUBSET RequestedAlertIds : bulk_resolve_alerts(ids)
UpdateAlert ==
    AllIdle /\ \E id \in RequestedAlertIds, sev \in {Omitted, "low"},
                  st \in {Omitted} \cup Statuses : update_alert(id, sev, st)

Next ==
    \/ AddTopology
    \/ AddSensorData
    \/ ReceiveSensorData
    \/ PassStep
    \/ PassEnd
    \/ ResolveAlert
    \/ BulkResolveAlerts
    \/ UpdateAlert

Spec == Init /\ [][Next]_vars

\* Batch ingestion over every topology that add_topology can have stored for
\* the full set of sensors.
TopologyRows ==
    {[parent_sensor_id |-> q, child_sensor_id |-> c] : <<q, c>> \in SensorIds \X SensorIds}

StoredTopologies == UNION {[1..n -> TopologyRows] : n \in 0..MaxEdges}

InitTopology ==
    /\ sensors = SensorIds
    /\ pipeline_topology \in StoredTopologies
    /\ sensor_data = [sid \in SensorIds |-> <<>>]
    /\ processed_data = [sid \in SensorIds |-> <<>>]
    /\ alerts = <<>>
    /\ next_alert_id = 1
    /\ pass = [p \in Passes |-> IdlePass]
    /\ response = NoResponse

NextTopology ==
    \/ ReceiveSensorData
    \/ PassStep
    \/ PassEnd

SpecTopology == InitTopology /\ [][NextTopology]_vars

\* Two batch requests served at the same time by two workers, over every
\* topology of the two registered sensors.
InitConcurrent ==
    /\ sensors = {1, 2}
    /\ pipeline_topology \in
           {t \in StoredTopologies :
               \A i \in 1..Len(t) : t[i].parent_sensor_id \in {1, 2}
                                    /\ t[i].child_sensor_id \in {1, 2}}
    /\ sensor_data = [sid \in SensorIds |-> <<>>]
    /\ processed_data = [sid \in SensorIds |-> <<>>]
    /\ alerts = <<>>
    /\ next_alert_id = 1
    /\ pass = [p \in Passes |-> IdlePass]
    /\ response = NoResponse

\* the request bodies of the concurrent requests: low-battery readings
ConcurrentValues == {<<20, 10>>, <<80, 10>>}
ConcurrentBatches ==
    UNION {[D -> {FloatReading(v[1], v[2]) : v \in ConcurrentValues}] :
              D \in SUBSET sensors}

ConcurrentReceive ==
    \E p \in Passes, readings \in ConcurrentBatches : receive_sensor_data(p, readings)

NextConcurrent ==
    \/ ConcurrentReceive
    \/ PassStep
    \/ PassEnd

SpecConcurrent == InitConcurrent /\ [][NextConcurrent]_vars

\* Batch ingestion with full-battery readings of flow 80 and 20, over every
\* topology of the two registered sensors.
ScenarioValues == {<<80, 100>>, <<20, 100>>}
ScenarioReadings == {FloatReading(v[1], v[2]) : v \in ScenarioValues}
ScenarioBatches == UNION {[D -> ScenarioReadings] : D \in SUBSET sensors}

InitScenario ==
    /\ sensors = {1, 2}
    /\ pipeline_topology \in
           {t \in StoredTopologies :
               \A i \in 1..Len(t) : t[i].parent_sensor_id \in {1, 2}
                                    /\ t[i].child_sensor_id \in {1, 2}}
    /\ sensor_data = [sid \in SensorIds |-> <<>>]
    /\ processed_data = [sid \in SensorIds |-> <<>>]
    /\ alerts = <<>>
    /\ next_alert_id = 1
    /\ pass = [p \in Passes |-> IdlePass]
    /\ response = NoResponse

ReceiveScenario ==
    AllIdle /\ \E readings \in ScenarioBatches : receive_sensor_data(1, readings)

NextScenario ==
    \/ ReceiveScenario
    \/ PassStep
    \/ PassEnd

SpecScenario == InitScenario /\ [][NextScenario]_vars

\* Sensors registered and deleted, edges added, and readings ingested, one
\* request at a time.
RegistryBatches == UNION {[D -> {FloatReading(20, 10)}] : D \in SUBSET sensors}

ReceiveRegistry ==
    AllIdle /\ \E readings \in RegistryBatches : receive_sensor_data(1, readings)

NextRegistry ==
    \/ CreateSensor
    \/ DeleteSensor
    \/ AddTopology
    \/ AddSensorData
    \/ ReceiveRegistry
    \/ PassStep
    \/ PassEnd

SpecRegistry == Init /\ [][NextRegistry]_vars

\* The scoring function applied to the readings of a batch, over every
\* topology of the two registered sensors: ordinary readings, and readings
\* whose flow_rate or battery_level is far below zero (the request model
\* accepts any float and any int).
ScoringValues == {<<20, 100>>, <<80, 10>>, <<-8000, 100>>, <<80, -4000>>}
ScoringBatches ==
    UNION {[D -> {FloatReading(v[1], v[2]) : v \in ScoringValues}] :
              D \in SUBSET sensors}

ReceiveScoring ==
    AllIdle /\ \E readings \in ScoringBatches : receive_sensor_data(1, readings)

NextScoring ==
    \/ ReceiveScoring
    \/ PassStep
    \/ PassEnd

SpecScoring == InitScenario /\ [][NextScoring]_vars

\* ------------------------------------------------------------------ claims

\* the stored edges of a topology dict, as (parent, child) pairs
EdgesOf(topology) ==
    UNION {{<<q, topology[q][i]>> : i \in 1..Len(topology[q])} : q \in SensorIds}

ParentsOf(topology, c) == {e[1] : e \in {d \in EdgesOf(topology) : d[2] = c}}

\* the sensors reached from the sensors of S by at most n edges
RECURSIVE ReachFrom(_, _, _)
ReachFrom(topology, S, n) ==
    IF n = 0 THEN S
    ELSE ReachFrom(topology,
                   S \cup {e[2] : e \in {d \in EdgesOf(topology) : d[1] \in S}},
                   n - 1)

HasCycle(topology) ==
    \E s \in SensorIds :
        s \in ReachFrom(topology, {e[2] : e \in {d \in EdgesOf(topology) : d[1] = s}},
                        NumSensors)

HasMultipleParents(topology) ==
    \E c \in SensorIds : Cardinality(ParentsOf(topology, c)) > 1

\* every sensor is the child of at most one stored row, and no cycle
IsForest(topology) ==
    /\ ~HasCycle(topology)
    /\ \A c \in SensorIds :
           Cardinality(UNION {{<<q, i>> : i \in {k \in 1..Len(topology[q]) :
                                                     topology[q][k] = c}} :
                                q \in SensorIds}) <= 1

SameDedupKey(a, b) ==
    /\ a.sensor_from = b.sensor_from
    /\ a.sensor_to = b.sensor_to
    /\ a.alert_type = b.alert_type
    /\ a.status = b.status

\* C1: at any time the alert store holds at most one row per dedup key
\* (source sensor, destination sensor, alert type, status).
C1_OneRowPerDedupKey ==
    \A i, j \in 1..Len(alerts) : SameDedupKey(alerts[i], alerts[j]) => i = j

\* C2: a stored alert whose status is resolved never has status active
\* again, whatever request is served next.
C2_ResolvedIsTerminal ==
    [][\A i \in 1..Len(alerts) :
          alerts[i].status = "resolved" =>
              \A j \in 1..Len(alerts') :
                  alerts'[j].alert_id = alerts[i].alert_id =>
                      alerts'[j].status = "resolved"]_vars

\* C3: a pass over a stored edge set with a cycle or with a sensor of more
\* than one parent is stopped before the traversal: it scores no edge and
\* generates no alert.
C3_MalformedTopologyRejected ==
    \A p \in Passes :
        (pass[p].pc # "idle"
         /\ (HasCycle(pass[p].topology) \/ HasMultipleParents(pass[p].topology)))
        => /\ pass[p].evaluated = <<>>
           /\ pass[p].alerts = <<>>

\* C4: the recursion of traverse_and_check is finite: no call is made for a
\* sensor while a call for the same sensor is still active, and the
\* traversal never ends by exhausting the interpreter's recursion depth.
C4_RecursionIsFinite ==
    \A p \in Passes :
        /\ pass[p].error # "RecursionError"
        /\ \A i, j \in 1..Len(pass[p].stack) :
               pass[p].stack[i].parent_id = pass[p].stack[j].parent_id => i = j

\* a stored alert row carries the fields of a generated alert
SameAlert(row, a) ==
    /\ row.sensor_from = a.sensor_from
    /\ row.sensor_to = a.sensor_to
    /\ row.alert_type = a.alert_type
    /\ row.severity = a.severity
    /\ row.probability = ProbabilityColumn(a.probability)
    /\ row.status = a.status

\* C5: the alerts a pass generates reach the alert store together, at the
\* commit that ends the pass: until then (and when the pass fails) the store
\* is as the pass found it, and after a completed pass it is that store
\* followed by every generated alert.
C5_AlertsCommittedTogether ==
    \A p \in Passes :
        LET ps == pass[p]
            n0 == Len(ps.before.alerts)
        IN  /\ ps.pc \in {"smoothed", "traverse", "failed"} => alerts = ps.before.alerts
            /\ ps.pc = "done" =>
                 /\ Len(alerts) = n0 + Len(ps.alerts)
                 /\ SubSeq(alerts, 1, n0) = ps.before.alerts
                 /\ \A i \in 1..Len(ps.alerts) : SameAlert(alerts[n0 + i], ps.alerts[i])

\* a pass failed in the middle of its traversal, having generated alerts
C5_Witness ==
    \E p \in Passes :
        /\ pass[p].pc = "failed"
        /\ pass[p].raised_in = "traversal"
        /\ pass[p].alerts # <<>>

\* C6: a pass that fails after the smoothing step and before the final
\* commit has persisted nothing: no processed_data row and no alert row.
C6_FailedPassPersistsNothing ==
    \A p \in Passes :
        (pass[p].pc = "failed" /\ pass[p].raised_in = "traversal")
        => /\ processed_data = pass[p].before.processed_data
           /\ alerts = pass[p].before.alerts

Count(seq, Test(_)) == Cardinality({i \in 1..Len(seq) : Test(seq[i])})

\* the pass is one over all registered sensors, each of which has a reading,
\* and it has reached its traversal
FullPassWithReadings(ps) ==
    /\ \/ ps.pc \in {"traverse", "done"}
       \/ ps.pc = "failed" /\ ps.raised_in = "traversal"
    /\ ps.sensors = SortedSeq(sensors)
    /\ \A sid \in sensors : get_latest_data(sid, ps.new_readings, sensor_data) # None

\* how many times the pass has scored the edge e = (parent, child)
Scored(ps, e) == Count(ps.evaluated, LAMBDA v : <<v.parent_id, v.child_id>> = e)

TraversalOver(ps) == ps.pc = "done" \/ (ps.pc = "traverse" /\ ps.roots = <<>> /\ ps.stack = <<>>)

\* C7: over a forest in which every sensor has a reading, the traversal of a
\* pass over all registered sensors never visits a sensor or scores an edge
\* twice, does not fail, and when it is over it has visited every sensor once
\* and scored every stored edge once.
C7_ForestVisitedOnce ==
    \A p \in Passes :
        LET ps == pass[p]
        IN  (FullPassWithReadings(ps) /\ IsForest(ps.topology)) =>
              /\ ps.pc # "failed"
              /\ \A sid \in SensorIds : Count(ps.visited, LAMBDA v : v = sid) <= 1
              /\ \A e \in SensorIds \X SensorIds :
                    Scored(ps, e) <= (IF e \in EdgesOf(ps.topology) THEN 1 ELSE 0)
              /\ TraversalOver(ps) =>
                    /\ \A sid \in sensors : Count(ps.visited, LAMBDA v : v = sid) = 1
                    /\ \A e \in EdgesOf(ps.topology) : Scored(ps, e) = 1

\* a completed pass over a forest of two edges with a reading everywhere
C7_Witness ==
    \E p \in Passes :
        /\ pass[p].pc = "done"
        /\ FullPassWithReadings(pass[p])
        /\ IsForest(pass[p].topology)
        /\ Cardinality(EdgesOf(pass[p].topology)) = 2
        /\ Len(pass[p].evaluated) = 2

\* C8: when both of two concurrent passes have completed and both generated
\* an alert of the same (source, destination, type), the store holds exactly
\* one active row of that key.
C8_ConcurrentDedup ==
    (\A p \in Passes : pass[p].pc = "done") =>
        \A i \in 1..Len(pass[1].alerts), j \in 1..Len(pass[2].alerts) :
            SameDedupKey(pass[1].alerts[i], pass[2].alerts[j]) =>
                Count(alerts, LAMBDA r : /\ SameDedupKey(r, pass[1].alerts[i])
                                         /\ r.status = "active") = 1

IsLeak(a) == a.alert_type = "leak"

\* a generated leak alert: probability (the leak_prob of its edge) and band
LeakWellFormed(a) ==
    /\ a.probability >= LEAK_EMIT_THRESHOLD * Percent
    /\ a.severity = IF a.probability < LEAK_HIGH_THRESHOLD * Percent
                    THEN "medium" ELSE "high"

\* a stored leak row, whose probability is the leak_prob rounded to
\* hundredths: 69.996 is stored as 70.00 with severity medium
StoredLeakWellFormed(r) ==
    /\ r.severity \in {"medium", "high"}
    /\ r.probability >= LEAK_EMIT_THRESHOLD * 100
    /\ r.severity = "medium" => r.probability <= LEAK_HIGH_THRESHOLD * 100
    /\ r.severity = "high" => r.probability >= LEAK_HIGH_THRESHOLD * 100

IsLowBatteryFor(a, sid, probability) ==
    /\ a.alert_type = "low_battery"
    /\ a.sensor_from = sid
    /\ a.sensor_to = sid
    /\ a.severity = "low"
    /\ a.probability = probability

\* the probability of a low_battery alert as generated and as stored
GeneratedLowBattery == LOW_BATTERY_PROBABILITY * Percent
StoredLowBattery == LOW_BATTERY_PROBABILITY * 100

HasLowBattery(ps, sid) ==
    LET d == get_latest_data(sid, ps.new_readings, sensor_data)
    IN  d # None /\ d.battery_level < LOW_BATTERY_THRESHOLD

\* C10 as claimed: a completed pass has generated a low_battery alert for
\* every sensor of the pass whose latest reading has battery below 20.
C10_EveryLowBatterySensorAlerted ==
    \A p \in Passes :
        pass[p].pc = "done" =>
            \A k \in 1..Len(pass[p].sensors) :
                HasLowBattery(pass[p], pass[p].sensors[k]) =>
                    \E i \in 1..Len(pass[p].alerts) :
                        IsLowBatteryFor(pass[p].alerts[i], pass[p].sensors[k],
                                        GeneratedLowBattery)

\* C10 as amended: a pass generates a low_battery alert (source =
\* destination, severity low, probability 90) for a sensor exactly when the
\* sensor's reading has battery below 20 and the sensor is an endpoint of an
\* edge the pass scored, whatever the leak probability of that edge.
C10_LowBatteryOnScoredEdges ==
    \A p \in Passes :
        /\ \A sid \in SensorIds :
              (\E i \in 1..Len(pass[p].alerts) :
                   pass[p].alerts[i].alert_type = "low_battery"
                   /\ pass[p].alerts[i].sensor_from = sid)
              <=> (/\ HasLowBattery(pass[p], sid)
                   /\ \E k \in 1..Len(pass[p].evaluated) :
                          sid \in {pass[p].evaluated[k].parent_id,
                                   pass[p].evaluated[k].child_id})
        /\ \A i \in 1..Len(pass[p].alerts) :
              pass[p].alerts[i].alert_type = "low_battery" =>
                  IsLowBatteryFor(pass[p].alerts[i], pass[p].alerts[i].sensor_from,
                                  GeneratedLowBattery)

\* a completed pass scored an edge below 50 whose child, not a root, has a
\* low battery and got its alert stored, while another sensor with a low
\* battery, on no scored edge, got none
C10_Witness ==
    \E p \in Passes :
        /\ pass[p].pc = "done"
        /\ \E k \in 1..Len(pass[p].evaluated) :
              /\ pass[p].evaluated[k].leak_prob < LEAK_EMIT_THRESHOLD * Percent
              /\ HasLowBattery(pass[p], pass[p].evaluated[k].child_id)
              /\ \E i \in 1..Len(alerts) :
                     IsLowBatteryFor(alerts[i], pass[p].evaluated[k].child_id,
                                     StoredLowBattery)
        /\ \E sid \in sensors :
              /\ HasLowBattery(pass[p], sid)
              /\ \A i \in 1..Len(alerts) : ~IsLowBatteryFor(alerts[i], sid, StoredLowBattery)

\* a completed pass over the single edge q -> c with the readings of
\* Scenario A: parent flow 80, child flow 20, both batteries 100
IsScenarioA(ps, q, c) ==
    /\ ps.pc = "done"
    /\ q # c
    /\ EdgesOf(ps.topology) = {<<q, c>>}
    /\ Len(ps.topology[q]) = 1
    /\ DOMAIN ps.new_readings = {q, c}
    /\ ps.new_readings[q] = FloatReading(80, 100)
    /\ ps.new_readings[c] = FloatReading(20, 100)
    /\ ps.before.alerts = <<>>

\* the pass scored the edge once and generated and stored one leak alert
\* of the given severity for it
OneLeakOfSeverity(ps, q, c, severity) ==
    /\ Len(ps.evaluated) = 1
    /\ Count(ps.alerts, IsLeak) = 1
    /\ Count(alerts, IsLeak) = 1
    /\ \A i \in 1..Len(alerts) :
           IsLeak(alerts[i]) => /\ alerts[i].sensor_from = q
                                /\ alerts[i].sensor_to = c
                                /\ alerts[i].severity = severity
                                /\ alerts[i].status = "active"

\* C11 as claimed: in Scenario A leak_prob is 70 or more and the pass
\* creates exactly one leak alert, of severity high.
C11_ScenarioAHigh ==
    \A p \in Passes : \A q, c \in SensorIds :
        IsScenarioA(pass[p], q, c) =>
            /\ OneLeakOfSeverity(pass[p], q, c, "high")
            /\ pass[p].evaluated[1].leak_prob >= LEAK_HIGH_THRESHOLD * Percent

\* C11 as amended: in Scenario A leak_prob is in [50, 70) (flow_score is
\* 0.5 at its midpoint, so leak_prob is below 25 + 40 + 5) and the pass
\* creates exactly one leak alert, of severity medium.
C11_ScenarioAMedium ==
    \A p \in Passes : \A q, c \in SensorIds :
        IsScenarioA(pass[p], q, c) =>
            /\ OneLeakOfSeverity(pass[p], q, c, "medium")
            /\ pass[p].evaluated[1].leak_prob >= LEAK_EMIT_THRESHOLD * Percent
            /\ pass[p].evaluated[1].leak_prob < LEAK_HIGH_THRESHOLD * Percent

\* Scenario A has been ingested over the edge 1 -> 2
C11_Witness == IsScenarioA(pass[1], 1, 2) /\ Len(alerts) = 1

\* C12: resolve_alert of a stored alert succeeds and leaves it resolved; of
\* an alert that is already resolved it changes nothing in the store, so a
\* second resolve_alert ends in the state the first one left.
C12_ResolveIdempotent ==
    [][\A id \in RequestedAlertIds :
          (id \in AlertIds /\ resolve_alert(id)) =>
              /\ response'.status_code = 200
              /\ response'.number = id
              /\ AlertById(id).status = "resolved" => StoreUnchanged
              /\ \A i \in 1..Len(alerts') :
                     alerts'[i] = IF alerts[i].alert_id = id
                                  THEN [alerts[i] EXCEPT !.status = "resolved"]
                                  ELSE alerts[i]
              /\ Len(alerts') = Len(alerts)]_vars

\* resolve_alert has answered for an alert that was already resolved
C12_Witness ==
    /\ response = Response(200, "Alert already resolved", response.number)
    /\ response.number \in AlertIds
    /\ AlertById(response.number).status = "resolved"

\* the alerts table after every row whose id is in ids has been resolved
AllResolvedIn(ids) ==
    [i \in 1..Len(alerts) |->
        IF alerts[i].alert_id \in ids
        THEN [alerts[i] EXCEPT !.status = "resolved"]
        ELSE alerts[i]]

\* C13: bulk_resolve_alerts(ids) with at least one id matching a row
\* succeeds, whether or not other ids match none; afterwards every row whose
\* id is in ids is resolved, whatever its status was, and every other row and
\* the rest of the store are unchanged.
C13_BulkResolveFrame ==
    [][\A ids \in SUBSET RequestedAlertIds :
          (ids \cap AlertIds # {} /\ bulk_resolve_alerts(ids)) =>
              /\ response'.status_code = 200
              /\ alerts' = AllResolvedIn(ids)
              /\ UNCHANGED <<sensors, pipeline_topology, sensor_data,
                             processed_data, next_alert_id, pass>>]_vars

\* a bulk resolve has succeeded, leaving resolved rows and an active row
\* that was not named
C13_Witness ==
    /\ response.status_code = 200
    /\ response.detail = "alerts resolved successfully"
    /\ \E i \in 1..Len(alerts) : alerts[i].status = "resolved"
    /\ \E i \in 1..Len(alerts) :
           alerts[i].status = "active" /\ alerts[i].alert_id \notin RequestedAlertIds

\* C14: the count bulk_resolve_alerts reports is the number of rows the call
\* changed from active to resolved.
C14_CountIsTransitions ==
    [][\A ids \in SUBSET RequestedAlertIds :
          (ids \cap AlertIds # {} /\ bulk_resolve_alerts(ids)) =>
              response'.number =
                  Cardinality({i \in 1..Len(alerts) :
                                  /\ alerts[i].alert_id \in ids
                                  /\ alerts[i].status = "active"})]_vars

\* the sensors of the pass that have a reading in its batch
BatchSensors(ps) ==
    {ps.sensors[k] : k \in 1..Len(ps.sensors)} \cap DOMAIN ps.new_readings

\* rows is old followed by n more rows
Extends(rows, old, n) ==
    /\ Len(rows) = Len(old) + n
    /\ SubSeq(rows, 1, Len(old)) = old

\* the smoothing step of the pass is over: its rows are committed, or the
\* request has failed
SmoothingOver(ps) == ps.pc \in {"traverse", "done", "failed"}

\* C15: once the smoothing step of a pass is over, each sensor with a
\* reading in the batch has exactly one more processed_data row than the
\* pass found, every other sensor has the rows the pass found, and the rows
\* the pass found are unchanged.
C15_OneRowPerIngestedReading ==
    \A p \in Passes :
        SmoothingOver(pass[p]) =>
            \A sid \in SensorIds :
                Extends(processed_data[sid], pass[p].before.processed_data[sid],
                        IF sid \in BatchSensors(pass[p]) THEN 1 ELSE 0)

\* the row the smoothing step is to write for a sensor whose reading is r:
\* the mean of the window and its difference to the newest row, or
\* r.flow_rate and 0 without history
ExpectedProcessed(sid, r, processed) ==
    LET window == last_proc_of(sid, processed)
        mean == SeqSum([i \in 1..Len(window) |-> window[i].smoothed_flow])
                    \div Len(window)
    IN  IF window = <<>>
        THEN [sensor_id |-> sid, smoothed_flow |-> r.flow_rate, flow_diff |-> 0]
        ELSE [sensor_id |-> sid, smoothed_flow |-> mean,
              flow_diff |-> mean - window[1].smoothed_flow]

\* C16: the smoothing step raises no error, with or without history, and
\* the row it adds for a sensor with a reading carries the mean of the
\* sensor's window (the reading's flow_rate without history) and the
\* difference to the newest row of the window (0 without history).
C16_SmoothedFlowAndDiff ==
    \A p \in Passes :
        LET ps == pass[p]
        IN  /\ ~(ps.pc = "failed" /\ ps.raised_in = "smoothing")
            /\ ps.pc = "smoothed" =>
                  /\ {ps.processed[i].sensor_id : i \in 1..Len(ps.processed)}
                         = {ps.sensors[k] : k \in
                               {j \in 1..Len(ps.sensors) :
                                   get_latest_data(ps.sensors[j], ps.new_readings,
                                                   sensor_data) # None}}
                  /\ \A i \in 1..Len(ps.processed) :
                        ps.processed[i] =
                            ExpectedProcessed(
                                ps.processed[i].sensor_id,
                                get_latest_data(ps.processed[i].sensor_id,
                                                ps.new_readings, sensor_data),
                                ps.before.processed_data)

\* an alert or a topology row names sensor sid
AlertNames(a, sid) == a.sensor_from = sid \/ a.sensor_to = sid
EdgeNames(m, sid) == m.parent_sensor_id = sid \/ m.child_sensor_id = sid

\* C17: delete_sensor of a registered sensor leaves no reading, no
\* processed_data row, no alert and no topology row that names the sensor, and
\* leaves the records of the other sensors as they were.
C17_DeleteSensorCascades ==
    [][\A sid \in SensorIds :
          (sid \in sensors /\ delete_sensor(sid)) =>
              /\ sensors' = sensors \ {sid}
              /\ sensor_data'[sid] = <<>>
              /\ processed_data'[sid] = <<>>
              /\ \A i \in 1..Len(alerts') : ~AlertNames(alerts'[i], sid)
              /\ \A i \in 1..Len(pipeline_topology') :
                     ~EdgeNames(pipeline_topology'[i], sid)
              /\ \A o \in SensorIds \ {sid} :
                     /\ sensor_data'[o] = sensor_data[o]
                     /\ processed_data'[o] = processed_data[o]
              /\ alerts' = SelectSeq(alerts, LAMBDA a : ~AlertNames(a, sid))
              /\ pipeline_topology' =
                     SelectSeq(pipeline_topology, LAMBDA m : ~EdgeNames(m, sid))]_vars

\* C18: every stored topology row has its parent and its child among the
\* registered sensors, and add_topology naming an unregistered sensor answers
\* with an error and leaves the rows as they were.
C18_EdgesNameRegisteredSensors ==
    [][/\ \A i \in 1..Len(pipeline_topology') :
              /\ pipeline_topology'[i].parent_sensor_id \in sensors'
              /\ pipeline_topology'[i].child_sensor_id \in sensors'
       /\ \A q, c \in SensorIds :
              ((q \notin sensors \/ c \notin sensors) /\ add_topology(q, c)) =>
                  /\ response'.status_code = 404
                  /\ pipeline_topology' = pipeline_topology]_vars

\* with a row stored and a sensor deleted, add_topology has refused an edge
C18_Witness ==
    /\ response = Response(404, "Parent or child sensor not found", 0)
    /\ pipeline_topology # <<>>
    /\ sensors = {2, 3}

\* the sensor has no reading for the pass: none in the batch, none stored
HasNoReading(ps, sid) == get_latest_data(sid, ps.new_readings, sensor_data) = None

\* some registered sensor has a processed_data row when the pass starts
SomeHistory(ps) == \E sid \in SensorIds : ps.before.processed_data[sid] # <<>>

\* C19: a sensor without any reading gets no processed_data row, no call of
\* the traversal, no scored edge and no alert; its missing reading raises no
\* error (a pass fails only over a cycle or a processed history), and a
\* completed pass has committed the alerts of the edges it scored.
C19_MissingReadingSkipped ==
    \A p \in Passes :
        LET ps == pass[p]
        IN  /\ ps.pc = "failed" => HasCycle(ps.topology) \/ SomeHistory(ps)
            /\ ps.pc = "done" =>
                  /\ Len(alerts) = Len(ps.before.alerts) + Len(ps.alerts)
                  /\ \A i \in 1..Len(ps.alerts) :
                        SameAlert(alerts[Len(ps.before.alerts) + i], ps.alerts[i])
            /\ \A sid \in SensorIds :
                  (ps.pc # "idle" /\ HasNoReading(ps, sid)) =>
                      /\ processed_data[sid] = ps.before.processed_data[sid]
                      /\ \A i \in 1..Len(ps.processed) :
                            ps.processed[i].sensor_id # sid
                      /\ \A i \in 1..Len(ps.visited) : ps.visited[i] # sid
                      /\ \A i \in 1..Len(ps.evaluated) :
                            sid \notin {ps.evaluated[i].parent_id,
                                        ps.evaluated[i].child_id}
                      /\ \A i \in 1..Len(ps.alerts) : ~AlertNames(ps.alerts[i], sid)

\* a completed pass skipped the edge to a child without a reading and
\* stored the alerts of another edge
C19_Witness ==
    \E p \in Passes : \E sid \in SensorIds :
        /\ pass[p].pc = "done"
        /\ HasNoReading(pass[p], sid)
        /\ \E e \in EdgesOf(pass[p].topology) :
               e[2] = sid /\ ~HasNoReading(pass[p], e[1])
        /\ pass[p].evaluated # <<>>
        /\ alerts # <<>>
        /\ \A i \in 1..Len(alerts) : ~AlertNames(alerts[i], sid)

\* both workers serve a pass with a reading of sid in its batch, both read
\* the same window of sid, and the smoothing step of both is over
BothSmoothed(sid) ==
    /\ \A p \in Passes : SmoothingOver(pass[p]) /\ sid \in BatchSensors(pass[p])
    /\ pass[1].before.processed_data[sid] = pass[2].before.processed_data[sid]

\* C20: when two concurrent passes carry a reading of the same sensor and
\* read the same window, then once both are past the smoothing step the
\* sensor has exactly two new rows after the rows both found, each carrying
\* the mean of that window (the reading's flow_rate without history).
C20_ConcurrentRowsKept ==
    \A sid \in SensorIds :
        BothSmoothed(sid) =>
            LET old == pass[1].before.processed_data[sid]
                rows == processed_data[sid]
            IN  /\ Extends(rows, old, 2)
                /\ \A p \in Passes :
                       \E i \in Len(old) + 1..Len(rows) :
                           rows[i] = ExpectedProcessed(sid, pass[p].new_readings[sid],
                                                       pass[p].before.processed_data)

\* C21: for all flow and battery inputs the leak_prob that
\* compute_leak_probability_sigmoid returns is strictly greater than 0 and
\* strictly less than 100, and the computation never fails: no pass ends in an
\* error raised by the scoring, and every edge scored has such a leak_prob.
C21_LeakProbStrictlyBetween ==
    \A p \in Passes :
        /\ pass[p].raised_in = "traversal"
               => pass[p].error \notin {"TypeError", "OverflowError"}
        /\ \A i \in 1..Len(pass[p].evaluated) :
               /\ pass[p].evaluated[i].leak_prob > 0
               /\ pass[p].evaluated[i].leak_prob < 100 * Percent

\* the edge the innermost call of a pass is at, with a reading at both ends of
\* which at least one is the latest persisted one
AtEdgeWithPersistedReading(ps) ==
    /\ ps.stack # <<>>
    /\ LET top == Last(ps.stack)
       IN  /\ top.i <= Len(ps.topology[top.parent_id])
           /\ LET child_data == get_latest_data(ps.topology[top.parent_id][top.i],
                                                ps.new_readings, sensor_data)
              IN  /\ child_data # None
                  /\ "decimal" \in {top.parent_data.kind, child_data.kind}

\* C22: scoring an edge works for every source of its two readings: when an
\* endpoint's reading is the latest persisted one (a fixed-point decimal
\* flow) instead of one delivered in the batch, the edge evaluation still
\* completes without error.
C22_PersistedReadingsScored ==
    \A p \in Passes :
        AtEdgeWithPersistedReading(pass[p]) => pass[p].error # "TypeError"

\* the row is the bootstrap row of a reading, or repeats the smoothed_flow of
\* the first row of its sensor; its flow_diff is 0
FrozenRow(row, first_flow) == row.smoothed_flow = first_flow /\ row.flow_diff = 0

IsSingleReadingPass(ps) ==
    /\ Len(ps.sensors) = 1
    /\ DOMAIN ps.new_readings = {ps.sensors[1]}
    /\ ps.new_readings[ps.sensors[1]].kind = "decimal"

\* the sensors reached from the sensors of S along at most n edges whose two
\* ends have a reading
RECURSIVE BelowWithReadings(_, _, _)
BelowWithReadings(ps, S, n) ==
    IF n = 0 THEN S
    ELSE BelowWithReadings(ps,
             S \cup {e[2] : e \in {d \in EdgesOf(ps.topology) :
                                      d[1] \in S /\ ~HasNoReading(ps, d[2])}},
             n - 1)

\* the edges of the subtree below sid that the traversal comes to with a
\* reading at both ends
SubtreeEdges(ps, sid) ==
    {e \in EdgesOf(ps.topology) :
        /\ e[1] \in BelowWithReadings(ps, {sid}, NumSensors)
        /\ ~HasNoReading(ps, e[2])}

\* C24: a pass of add_sensor_data(S, ...) that has reached the traversal and
\* is over has, if S is the child of an edge, evaluated no edge and created
\* no alert; if S is a root, it has evaluated exactly the edges of the
\* subtree below S (those reached with a reading at both ends); in both
\* cases it has written processed_data for S only.
C24_SingleReadingPass ==
    \A p \in Passes :
        LET ps == pass[p]
            S  == ps.sensors[1]
        IN  (/\ IsSingleReadingPass(ps)
             /\ ps.pc = "done" \/ (ps.pc = "failed" /\ ps.raised_in = "traversal"))
            =>
            /\ \A sid \in SensorIds \ {S} :
                   processed_data[sid] = ps.before.processed_data[sid]
            /\ IF ParentsOf(ps.topology, S) # {}
               THEN ps.evaluated = <<>> /\ ps.alerts = <<>>
                    /\ alerts = ps.before.alerts
               ELSE {<<ps.evaluated[i].parent_id, ps.evaluated[i].child_id>> :
                        i \in 1..Len(ps.evaluated)} = SubtreeEdges(ps, S)

\* the edges of the subtree below sid: those that leave sid or one of its
\* descendants
EdgesBelow(topology, sid) ==
    {e \in EdgesOf(topology) : e[1] \in ReachFrom(topology, {sid}, NumSensors)}

\* C25: over a forest, when a sensor has no reading, no edge of the subtree
\* below it is evaluated in the pass and no alert is generated for such an
\* edge or for a sensor of the subtree, whatever the readings of the
\* descendants are; the pass does not fail in the traversal.
C25_SubtreeBelowMissingSkipped ==
    \A p \in Passes :
        LET ps == pass[p]
        IN  (ps.pc \in {"traverse", "done", "failed"} /\ IsForest(ps.topology)) =>
                /\ ps.raised_in # "traversal"
                /\ \A sid \in SensorIds :
                       HasNoReading(ps, sid) =>
                           \A e \in EdgesBelow(ps.topology, sid) :
                               /\ Scored(ps, e) = 0
                               /\ \A i \in 1..Len(ps.alerts) :
                                      /\ ~AlertNames(ps.alerts[i], e[2])
                                      /\ ~AlertNames(ps.alerts[i], sid)

\* a finished pass over the chain q -> c -> d in which q has no reading and
\* both c and d have one
C25_Witness ==
    \E p \in Passes, q, c, d \in SensorIds :
        /\ pass[p].pc = "done"
        /\ EdgesOf(pass[p].topology) = {<<q, c>>, <<c, d>>}
        /\ Cardinality({q, c, d}) = NumSensors
        /\ HasNoReading(pass[p], q)
        /\ ~HasNoReading(pass[p], c)
        /\ ~HasNoReading(pass[p], d)

\* the pass of a request to POST /sensors/data
IsBatchPass(ps) == ps.pc # "idle" /\ ~IsSingleReadingPass(ps)

\* what get_latest_data finds in the table rows of a sensor
LatestPersisted(rows) == IF rows = <<>> THEN None ELSE LoadedReading(Last(rows))

\* C26: no step of a batch ingestion, from the arrival of the request to its
\* end, changes the sensor_data table, and for a sensor without a reading in
\* the batch get_latest_data returns what the table held for it before the
\* step: its latest persisted reading, or none.
C26_BatchLeavesReadingsUnchanged ==
    [][\A p \in Passes :
          (pass'[p] # pass[p] /\ (IsBatchPass(pass[p]) \/ IsBatchPass(pass'[p]))) =>
              /\ sensor_data' = sensor_data
              /\ \A sid \in SensorIds \ DOMAIN pass'[p].new_readings :
                     get_latest_data(sid, pass'[p].new_readings, sensor_data')
                         = LatestPersisted(sensor_data[sid])]_vars

\* a sensor whose reading was delivered in an earlier batch (it has a
\* processed_data row and no stored reading) has no reading in the batch of
\* the pass in progress, and get_latest_data finds none for it
C26_Witness ==
    \E p \in Passes, sid \in SensorIds :
        /\ pass[p].pc \in {"traverse", "done"}
        /\ IsBatchPass(pass[p])
        /\ sid \in sensors
        /\ sid \notin DOMAIN pass[p].new_readings
        /\ DOMAIN pass[p].new_readings # {}
        /\ pass[p].before.processed_data[sid] # <<>>
        /\ sensor_data[sid] = <<>>
        /\ HasNoReading(pass[p], sid)

====
